---- MODULE Spec2Model ----
(***************************************************************************)
(* GreenMind quiz: the client-side quiz session (public/js/quiz.js) and    *)
(* the server-side submission pipeline (validation middleware, quiz        *)
(* controller, QuizResult model).                                          *)
(***************************************************************************)
EXTENDS Integers, Naturals, Sequences, FiniteSets, TLC

VARIABLES
    questions,              \* QuizManager.questions: per question userAnswer, isAnswered
    currentQuestionIndex,   \* QuizManager.currentQuestionIndex (0-based)
    isQuizStarted,
    isQuizCompleted,
    startTime,              \* Date or NULL
    endTime,                \* Date or NULL
    screen,                 \* the one screen hideAllScreens/show* left visible
    pending,                \* submitQuiz calls suspended at their await
    submitted,              \* history: submitQuiz ran since the last start or retake
    attempts,               \* QuizStatistics.attempts
    bestScore,              \* QuizStatistics.bestScore
    now,                    \* the clock read by new Date(), in half seconds
    req,                    \* server: body of the request being handled
    resp,                   \* server: outcome of the last handled request
    store,                  \* server: the quiz_results collection, in insertion order
    retryCall               \* server: the Utils.retry call in progress, its locals

clientVars == <<questions, currentQuestionIndex, isQuizStarted, isQuizCompleted,
                startTime, endTime, screen, pending, submitted, attempts, bestScore, now>>
serverVars == <<req, resp, store, retryCall>>
vars == <<questions, currentQuestionIndex, isQuizStarted, isQuizCompleted,
          startTime, endTime, screen, pending, submitted, attempts, bestScore, now,
          req, resp, store, retryCall>>

\* ------------------------------------------------------------------------
\* Bounds of the model
\* ------------------------------------------------------------------------
NumQuestions == 2       \* questions of the bank loaded in the session model
MaxClock == 1           \* clock ticks (half seconds) after page load
MaxSubmits == 2         \* submitQuiz calls that reach the server request
MaxStore == 2           \* records the store holds before requests stop
Epoch == 8000           \* clock reading at page load (half seconds since 1970)

NULL == -1

\* ------------------------------------------------------------------------
\* JavaScript values.  A number v is kept as twice its value, so that x.5 is
\* representable: Num(50) is 50, Half(50) is 50.5.
\* ------------------------------------------------------------------------
Num(i) == [type |-> "number", twice |-> 2 * i]
Half(i) == [type |-> "number", twice |-> 2 * i + 1]
Str == [type |-> "string", twice |-> 0]
Undefined == [type |-> "undefined", twice |-> 0]
Null == [type |-> "null", twice |-> 0]

IsNumber(v) == v.type = "number"
IsInteger(v) == v.type = "number" /\ v.twice % 2 = 0
IsNullish(v) == v.type \in {"undefined", "null"}
\* v || null : 0, null and undefined are falsy (a non-empty string is not)
Falsy(v) == IsNullish(v) \/ (v.type = "number" /\ v.twice = 0)

Abs(x) == IF x < 0 THEN -x ELSE x

\* ------------------------------------------------------------------------
\* Math.round((correctAnswers / totalQuestions) * 100) in IEEE-754 doubles.
\* c2, t2 are twice the operands, t2 # 0.  The exact value is 100*c2/t2;
\* Math.round rounds halves up (towards +Infinity).  The double product is
\* the exact value except where the quotient is not representable and the
\* product lands just below an exact half, e.g. 23/40*100 evaluates to
\* 57.49999999999999 and rounds to 57.  The quotients p/40 listed are all
\* the ones found by evaluating the expression in doubles for every pair
\* with -10 <= c2 < 260 and -10 <= t2 < 125.
\* ------------------------------------------------------------------------
FloatBelowHalf(c2, t2) ==
    \E p \in {23, 41, 51, 87, 97, 169, 179, 189, 199} : c2 * 40 = p * t2

FloorDiv(a, b) == IF b > 0 THEN a \div b ELSE (-a) \div (-b)

MathRoundPercent(c2, t2) ==
    LET exact == FloorDiv(200 * c2 + t2, 2 * t2)
    IN  IF FloatBelowHalf(c2, t2) THEN exact - 1 ELSE exact

\* Variant: a tolerance of 2 points instead of 1.
ScoreMismatchTolerance2(score, correctAnswers, totalQuestions) ==
    IF totalQuestions.twice = 0
    THEN correctAnswers.twice # 0
    ELSE Abs(score.twice
             - 2 * MathRoundPercent(correctAnswers.twice, totalQuestions.twice)) > 4

\* Math.abs(score - calculatedScore) > 1 for number operands.  A zero
\* divisor gives NaN (0/0: every comparison false) or +-Infinity.
ScoreMismatch(score, correctAnswers, totalQuestions) ==
    IF totalQuestions.twice = 0
    THEN correctAnswers.twice # 0
    ELSE Abs(score.twice
             - 2 * MathRoundPercent(correctAnswers.twice, totalQuestions.twice)) > 2

\* ------------------------------------------------------------------------
\* ValidationMiddleware.validateQuizSubmission: the set of fields of the
\* errors object (empty: next() is called).
\* ------------------------------------------------------------------------
ScoreError(b) ==
    \/ ~IsNumber(b.score)
    \/ ~IsInteger(b.score)
    \/ b.score.twice < 0 \/ b.score.twice > 200
    \/ /\ IsNumber(b.score) /\ IsNumber(b.totalQuestions) /\ IsNumber(b.correctAnswers)
       /\ ScoreMismatch(b.score, b.correctAnswers, b.totalQuestions)

\* Variant: a total of 0 passes (totalQuestions < 0 in place of < 1).
TotalQuestionsErrorAllowsZero(b) ==
    \/ ~IsNumber(b.totalQuestions)
    \/ ~IsInteger(b.totalQuestions)
    \/ b.totalQuestions.twice < 0 \/ b.totalQuestions.twice > 100
TotalQuestionsError(b) ==
    \/ ~IsNumber(b.totalQuestions)
    \/ ~IsInteger(b.totalQuestions)
    \/ b.totalQuestions.twice < 2 \/ b.totalQuestions.twice > 100

\* Variant: correctAnswers is not compared with totalQuestions.
CorrectAnswersErrorNoUpperBound(b) ==
    \/ ~IsNumber(b.correctAnswers)
    \/ ~IsInteger(b.correctAnswers)
    \/ b.correctAnswers.twice < 0
CorrectAnswersError(b) ==
    \/ ~IsNumber(b.correctAnswers)
    \/ ~IsInteger(b.correctAnswers)
    \/ b.correctAnswers.twice < 0
    \/ IsNumber(b.totalQuestions) /\ b.correctAnswers.twice > b.totalQuestions.twice

\* Variant: a time of 0 seconds passes (timeTaken < 0 in place of < 1).
TimeTakenErrorAllowsZero(b) ==
    /\ ~IsNullish(b.timeTaken)
    /\ \/ ~IsNumber(b.timeTaken)
       \/ ~IsInteger(b.timeTaken)
       \/ b.timeTaken.twice < 0
       \/ b.timeTaken.twice > 7200

TimeTakenError(b) ==
    /\ ~IsNullish(b.timeTaken)
    /\ \/ ~IsNumber(b.timeTaken)
       \/ ~IsInteger(b.timeTaken)
       \/ b.timeTaken.twice < 2
       \/ b.timeTaken.twice > 7200

\* Variant: the total of a category is not tested against 1.
CategoryStatsErrorNoTotalCheck(e) ==
    \/ ~e.isObject
    \/ ~IsNumber(e.correct) \/ ~IsNumber(e.total)
    \/ e.correct.twice > e.total.twice \/ e.correct.twice < 0

\* One entry of Object.entries(categories): stats is an object or not.
CategoryStatsError(e) ==
    \/ ~e.isObject
    \/ ~IsNumber(e.correct) \/ ~IsNumber(e.total)
    \/ e.correct.twice > e.total.twice \/ e.correct.twice < 0 \/ e.total.twice < 2

CategoriesError(b) ==
    /\ b.categories.type \notin {"undefined", "null"}
    /\ \/ b.categories.type # "object"
       \/ \E i \in 1..Len(b.categories.entries) :
              CategoryStatsError(b.categories.entries[i])

\* Variant: the validator stops at the first field in error.
validateQuizSubmissionFirstOnly(b) ==
    IF ScoreError(b) THEN {"score"}
    ELSE IF TotalQuestionsError(b) THEN {"totalQuestions"}
    ELSE IF CorrectAnswersError(b) THEN {"correctAnswers"}
    ELSE IF TimeTakenError(b) THEN {"timeTaken"}
    ELSE IF CategoriesError(b) THEN {"categories"}
    ELSE {}

validateQuizSubmission(b) ==
    {f \in {"score", "totalQuestions", "correctAnswers", "timeTaken", "categories"} :
        \/ f = "score" /\ ScoreError(b)
        \/ f = "totalQuestions" /\ TotalQuestionsError(b)
        \/ f = "correctAnswers" /\ CorrectAnswersError(b)
        \/ f = "timeTaken" /\ TimeTakenError(b)
        \/ f = "categories" /\ CategoriesError(b)}

\* ------------------------------------------------------------------------
\* QuizController.submitQuizResults: its own checks, in order; "ok" when the
\* controller goes on to build and save the record.
\* ------------------------------------------------------------------------
\* Variant: the controller compares the score with the rounded percentage
\* exactly, without the tolerance of 1.
ControllerCheckExact(b) ==
    IF ~IsNumber(b.score) \/ ~IsNumber(b.totalQuestions) \/ ~IsNumber(b.correctAnswers)
    THEN "Invalid quiz data provided"
    ELSE IF b.score.twice < 0 \/ b.score.twice > 200
    THEN "Score must be between 0 and 100"
    ELSE IF b.correctAnswers.twice > b.totalQuestions.twice
    THEN "Correct answers cannot exceed total questions"
    ELSE IF b.totalQuestions.twice <= 0
    THEN "Total questions must be greater than 0"
    ELSE IF b.score.twice #
            2 * MathRoundPercent(b.correctAnswers.twice, b.totalQuestions.twice)
    THEN "Score calculation mismatch"
    ELSE "ok"

ControllerCheck(b) ==
    IF ~IsNumber(b.score) \/ ~IsNumber(b.totalQuestions) \/ ~IsNumber(b.correctAnswers)
    THEN "Invalid quiz data provided"
    ELSE IF b.score.twice < 0 \/ b.score.twice > 200
    THEN "Score must be between 0 and 100"
    ELSE IF b.correctAnswers.twice > b.totalQuestions.twice
    THEN "Correct answers cannot exceed total questions"
    ELSE IF b.totalQuestions.twice <= 0
    THEN "Total questions must be greater than 0"
    ELSE IF ScoreMismatch(b.score, b.correctAnswers, b.totalQuestions)
    THEN "Score calculation mismatch"
    ELSE "ok"

\* quizResultData: timeTaken || null, categories || new Map()
NoCategories == [type |-> "object", entries |-> <<>>]

QuizResultData(b) ==
    [score |-> b.score,
     totalQuestions |-> b.totalQuestions,
     correctAnswers |-> b.correctAnswers,
     timeTaken |-> IF Falsy(b.timeTaken) THEN Null ELSE b.timeTaken,
     categories |-> IF IsNullish(b.categories) THEN NoCategories ELSE b.categories]

\* quizResultSchema: the validators of the fields (run by save()).
SchemaValid(d) ==
    /\ IsInteger(d.score) /\ d.score.twice >= 0 /\ d.score.twice <= 200
    /\ IsInteger(d.totalQuestions)
    /\ d.totalQuestions.twice >= 2 /\ d.totalQuestions.twice <= 100
    /\ IsInteger(d.correctAnswers) /\ d.correctAnswers.twice >= 0
    /\ d.correctAnswers.twice <= d.totalQuestions.twice
    /\ \/ IsNullish(d.timeTaken)
       \/ /\ IsInteger(d.timeTaken)
          /\ d.timeTaken.twice >= 2 /\ d.timeTaken.twice <= 7200
    /\ d.categories.type = "object"
    /\ \A i \in 1..Len(d.categories.entries) :
           LET e == d.categories.entries[i]
           IN  /\ e.isObject /\ IsNumber(e.correct) /\ IsNumber(e.total)
               /\ e.correct.twice >= 0 /\ e.total.twice >= 2

\* quizResultSchema.pre('save'): TRUE when the hook calls next() without error.
PreSaveOk(d) ==
    ~ScoreMismatch(d.score, d.correctAnswers, d.totalQuestions)

\* ------------------------------------------------------------------------
\* POST /api/quiz/submit: rate limit, validateQuizSubmission, then
\* submitQuizResults.  resp.status is "idle" before any request, "pending"
\* while a request is being handled, else the HTTP status.
\* ------------------------------------------------------------------------
Body(score, totalQuestions, correctAnswers, timeTaken, categories) ==
    [score |-> score, totalQuestions |-> totalQuestions,
     correctAnswers |-> correctAnswers, timeTaken |-> timeTaken,
     categories |-> categories]

CatUndefined == [type |-> "undefined", entries |-> <<>>]
CatString == [type |-> "string", entries |-> <<>>]
CatObject(entries) == [type |-> "object", entries |-> entries]
Stats(name, correct, total) ==
    [name |-> name, isObject |-> TRUE, correct |-> correct, total |-> total]
NotStats(name) ==
    [name |-> name, isObject |-> FALSE, correct |-> Undefined, total |-> Undefined]

EmptyBody == Body(Undefined, Undefined, Undefined, Undefined, CatUndefined)

Response(status, errors, message) ==
    [status |-> status, errors |-> errors, message |-> message]

\* save(): schema validation and the pre-save hook, then the insert
SaveAccepts(d) == SchemaValid(d) /\ PreSaveOk(d)

\* Variant: the record is inserted before the checks are looked at.
submitQuizResultsSaveFirst ==
    /\ resp.status = "pending"
    /\ store' = Append(store, QuizResultData(req))
    /\ resp' = IF validateQuizSubmission(req) # {}
               THEN Response("400", validateQuizSubmission(req), "Validation failed")
               ELSE IF ControllerCheck(req) # "ok"
               THEN Response("400", {}, ControllerCheck(req))
               ELSE Response("201", {}, "Quiz results saved successfully!")
    /\ UNCHANGED req
    /\ UNCHANGED retryCall
    /\ UNCHANGED clientVars

\* The whole chain with the insert succeeding.
submitQuizResults ==
    /\ resp.status = "pending"
    /\ LET errors == validateQuizSubmission(req)
           check == ControllerCheck(req)
           data == QuizResultData(req)
       IN  IF errors # {}
           THEN /\ resp' = Response("400", errors, "Validation failed")
                /\ store' = store
           ELSE IF check # "ok"
           THEN /\ resp' = Response("400", {}, check)
                /\ store' = store
           ELSE IF ~SaveAccepts(data)
           THEN /\ resp' = Response("500", {}, "save failed")
                /\ store' = store
           ELSE /\ resp' = Response("201", {}, "Quiz results saved successfully!")
                /\ store' = Append(store, data)
    /\ UNCHANGED req
    /\ UNCHANGED retryCall
    /\ UNCHANGED clientVars

\* The chain with the storage layer failing at the insert.
submitQuizResultsSaveFails ==
    /\ resp.status = "pending"
    /\ validateQuizSubmission(req) = {}
    /\ ControllerCheck(req) = "ok"
    /\ SaveAccepts(QuizResultData(req))
    /\ resp' = Response("500", {}, "save failed")
    /\ UNCHANGED <<req, store>>
    /\ UNCHANGED retryCall
    /\ UNCHANGED clientVars

\* configureFormRateLimit answers before the validator runs.
RateLimited ==
    /\ resp.status = "pending"
    /\ resp' = Response("429", {}, "Too many form submissions. Please wait before submitting again.")
    /\ UNCHANGED <<req, store>>
    /\ UNCHANGED retryCall
    /\ UNCHANGED clientVars

\* ------------------------------------------------------------------------
\* Utils.retry(fn, maxRetries, baseDelay).  fn is given by the outcome of
\* each of its successive calls: "ok" (the promise resolves) or the error
\* it rejects with.  retryCall holds the arguments, the locals i and
\* lastError, the position in the loop, and the calls of fn and of
\* Utils.sleep made so far.
\* ------------------------------------------------------------------------
MaxRetriesBound == 3    \* largest maxRetries of a modelled call

FnOutcomes == {"ok", "error A", "error B"}
FnBehaviours == [1..(MaxRetriesBound + 1) -> FnOutcomes]
BaseDelays == {1000, 250}

NoRetry == [pc |-> "none"]

RetryEntered(fn, maxRetries, baseDelay) ==
    [pc |-> "call", fn |-> fn, maxRetries |-> maxRetries, baseDelay |-> baseDelay,
     i |-> 0, lastError |-> "undefined", calls |-> 0, sleeps |-> <<>>,
     result |-> "undefined"]

\* Variant: the delay grows by baseDelay at each retry.
BackoffDelayLinear(baseDelay, i) == baseDelay * (i + 1)

\* baseDelay * Math.pow(2, i)
BackoffDelay(baseDelay, i) == baseDelay * 2^i

\* try { return await fn(); } catch (error) { ... } up to the sleep
retryCallsFn ==
    /\ retryCall.pc = "call"
    /\ LET outcome == retryCall.fn[retryCall.calls + 1]
           called == [retryCall EXCEPT !.calls = @ + 1]
       IN  retryCall' =
               IF outcome = "ok"
               THEN [called EXCEPT !.pc = "returned", !.result = outcome]
               ELSE IF retryCall.i = retryCall.maxRetries
               THEN [called EXCEPT !.pc = "thrown", !.lastError = outcome,
                                   !.result = outcome]
               ELSE [called EXCEPT !.pc = "sleep", !.lastError = outcome]
    /\ UNCHANGED <<req, resp, store>>
    /\ UNCHANGED clientVars

\* await Utils.sleep(delay), then i++ and the loop test
retrySleeps ==
    /\ retryCall.pc = "sleep"
    /\ retryCall' =
           [retryCall EXCEPT
               !.sleeps = Append(@, BackoffDelay(retryCall.baseDelay, retryCall.i)),
               !.i = @ + 1,
               !.pc = IF retryCall.i + 1 <= retryCall.maxRetries
                      THEN "call" ELSE "returned"]
    /\ UNCHANGED <<req, resp, store>>
    /\ UNCHANGED clientVars
\* ------------------------------------------------------------------------
\* public/js/quiz.js: the question bank (id, category, correct option index,
\* number of options) and the QuizQuestion objects
\* ------------------------------------------------------------------------
QUIZ_QUESTIONS == <<
    [id |-> 1, category |-> "Recycling", correctAnswer |-> 1, options |-> 4],
    [id |-> 2, category |-> "Energy Conservation", correctAnswer |-> 3, options |-> 4],
    [id |-> 3, category |-> "Water Conservation", correctAnswer |-> 3, options |-> 4],
    [id |-> 4, category |-> "Climate Change", correctAnswer |-> 1, options |-> 4],
    [id |-> 5, category |-> "Recycling", correctAnswer |-> 2, options |-> 4],
    [id |-> 6, category |-> "Energy Conservation", correctAnswer |-> 1, options |-> 4],
    [id |-> 7, category |-> "Water Conservation", correctAnswer |-> 1, options |-> 4],
    [id |-> 8, category |-> "Climate Change", correctAnswer |-> 1, options |-> 4],
    [id |-> 9, category |-> "Recycling", correctAnswer |-> 0, options |-> 4],
    [id |-> 10, category |-> "Energy Conservation", correctAnswer |-> 2, options |-> 4] >>

\* new QuizQuestion(questionData): the mutable part of the object
QuizQuestion == [userAnswer |-> NULL, isAnswered |-> FALSE]

\* Variant: selecting the option already selected clears the answer.
setUserAnswerToggle(q, answerIndex) ==
    IF q.isAnswered /\ q.userAnswer = answerIndex
    THEN [userAnswer |-> NULL, isAnswered |-> FALSE]
    ELSE [userAnswer |-> answerIndex, isAnswered |-> TRUE]

setUserAnswer(q, answerIndex) == [userAnswer |-> answerIndex, isAnswered |-> TRUE]

\* Variant: reset clears the answer and leaves the flag.
resetKeepsFlag(q) == [userAnswer |-> NULL, isAnswered |-> q.isAnswered]

reset(q) == [userAnswer |-> NULL, isAnswered |-> FALSE]

isCorrect(qs, i) ==
    qs[i].isAnswered /\ qs[i].userAnswer = QUIZ_QUESTIONS[i].correctAnswer

\* generateHTML: the radio inputs of question i rendered with "checked"
CheckedOptions(qs, i) ==
    {index \in 0..(QUIZ_QUESTIONS[i].options - 1) : qs[i].userAnswer = index}

\* loadQuestions over the first n entries of the bank
loadQuestions(n) == [i \in 1..n |-> QuizQuestion]

resetAll(qs) == [i \in 1..Len(qs) |-> reset(qs[i])]

\* ------------------------------------------------------------------------
\* QuizManager.calculateResults
\* ------------------------------------------------------------------------
\* Variant: only answered questions are counted in a category's total.
RECURSIVE CategoryScoresAnsweredOnly(_, _)
CategoryScoresAnsweredOnly(qs, i) ==
    IF i = 0 THEN <<>>
    ELSE LET acc == CategoryScoresAnsweredOnly(qs, i - 1)
             cat == QUIZ_QUESTIONS[i].category
             inc == IF isCorrect(qs, i) THEN 1 ELSE 0
             cnt == IF qs[i].isAnswered THEN 1 ELSE 0
         IN  IF \E k \in 1..Len(acc) : acc[k].name = cat
             THEN [k \in 1..Len(acc) |->
                      IF acc[k].name = cat
                      THEN [name |-> cat, correct |-> acc[k].correct + inc,
                            total |-> acc[k].total + cnt]
                      ELSE acc[k]]
             ELSE Append(acc, [name |-> cat, correct |-> inc, total |-> cnt])

\* categoryScores after the first i questions, keys in insertion order
RECURSIVE CategoryScores(_, _)
CategoryScores(qs, i) ==
    IF i = 0 THEN <<>>
    ELSE LET acc == CategoryScores(qs, i - 1)
             cat == QUIZ_QUESTIONS[i].category
             inc == IF isCorrect(qs, i) THEN 1 ELSE 0
         IN  IF \E k \in 1..Len(acc) : acc[k].name = cat
             THEN [k \in 1..Len(acc) |->
                      IF acc[k].name = cat
                      THEN [name |-> cat, correct |-> acc[k].correct + inc,
                            total |-> acc[k].total + 1]
                      ELSE acc[k]]
             ELSE Append(acc, [name |-> cat, correct |-> inc, total |-> 1])

RECURSIVE CorrectCount(_, _)
CorrectCount(qs, i) ==
    IF i = 0 THEN 0
    ELSE CorrectCount(qs, i - 1) + (IF isCorrect(qs, i) THEN 1 ELSE 0)

\* new Date() - null is the epoch reading itself
ToNumber(t) == IF t = NULL THEN 0 ELSE t

\* Math.round(ms / 1000) with the clock in half seconds, ms >= 0
TimeTaken(start, end) == (ToNumber(end) - ToNumber(start) + 1) \div 2

\* Variant: Math.round(correctAnswers / totalQuestions) * 100
ScoreRoundFirst(correctAnswers, totalQuestions) ==
    100 * ((2 * correctAnswers + totalQuestions) \div (2 * totalQuestions))

\* The number NaN, where a score is a number of the client
NaN == -2

\* Math.round((correctAnswers / totalQuestions) * 100); 0 / 0 is NaN, and
\* so are NaN * 100 and Math.round(NaN)
Score(correctAnswers, totalQuestions) ==
    IF totalQuestions = 0
    THEN NaN
    ELSE MathRoundPercent(2 * correctAnswers, 2 * totalQuestions)

\* JSON.stringify of a number of the request body: NaN is sent as null
ToJSON(n) == IF n = NaN THEN Null ELSE Num(n)

\* Variant: the percentage is taken over the answered questions only.
calculateResultsAnsweredOnly(qs, start, end) ==
    LET correctAnswers == CorrectCount(qs, Len(qs))
        totalQuestions == Len(qs) - Cardinality({i \in 1..Len(qs) : ~qs[i].isAnswered})
    IN  [score |-> IF totalQuestions = 0 THEN 0 ELSE Score(correctAnswers, totalQuestions),
         correctAnswers |-> correctAnswers,
         totalQuestions |-> totalQuestions,
         timeTaken |-> TimeTaken(start, end),
         categoryScores |-> CategoryScores(qs, Len(qs)),
         completedAt |-> end]

\* the object returned, with this.endTime already set to end
calculateResults(qs, start, end) ==
    LET correctAnswers == CorrectCount(qs, Len(qs))
        totalQuestions == Len(qs)
    IN  [score |-> Score(correctAnswers, totalQuestions),
         correctAnswers |-> correctAnswers,
         totalQuestions |-> totalQuestions,
         timeTaken |-> TimeTaken(start, end),
         categoryScores |-> CategoryScores(qs, Len(qs)),
         completedAt |-> end]

\* submitResultsToServer: the body of POST /quiz/submit
Payload(results) ==
    Body(ToJSON(results.score), Num(results.totalQuestions),
         Num(results.correctAnswers), Num(results.timeTaken),
         CatObject([k \in 1..Len(results.categoryScores) |->
             Stats(results.categoryScores[k].name,
                   Num(results.categoryScores[k].correct),
                   Num(results.categoryScores[k].total))]))

\* submitResultsToServer -> ApiClient.post -> ApiClient.request: the calls of
\* fetch one submitQuiz call makes before its promise settles.  request has
\* no loop: one fetch, and its failure is rethrown at once.
postOnce == 1

\* The server answers 201 only to a body that passes the whole chain.
ServerAccepts(b) ==
    /\ validateQuizSubmission(b) = {}
    /\ ControllerCheck(b) = "ok"
    /\ SaveAccepts(QuizResultData(b))

\* ------------------------------------------------------------------------
\* QuizStatistics.recordAttempt
\* ------------------------------------------------------------------------
Attempt(results) ==
    [score |-> results.score, correctAnswers |-> results.correctAnswers,
     totalQuestions |-> results.totalQuestions, timeTaken |-> results.timeTaken]

\* Variant: the first ten attempts are kept.
LastTenKeepsFirst(as) == IF Len(as) > 10 THEN SubSeq(as, 1, 10) ELSE as
LastTen(as) == IF Len(as) > 10 THEN SubSeq(as, Len(as) - 9, Len(as)) ELSE as

recordAttempt(results) ==
    /\ attempts' = LastTen(Append(attempts, Attempt(results)))
    /\ bestScore' = IF results.score > bestScore THEN results.score ELSE bestScore

\* ------------------------------------------------------------------------
\* QuizManager: the handlers of the page's events and the public methods.
\* A pending entry is one submitQuiz call suspended at its await: the
\* results it computed, and whether the quiz was started or retaken since
\* (stale).
\* ------------------------------------------------------------------------
QuestionIds == 1..(NumQuestions + 1)
AnswerIndexes == {1, 3, 4}
QuestionIndexes == (-1)..NumQuestions

MarkStale(ps) == [k \in 1..Len(ps) |-> [ps[k] EXCEPT !.stale = TRUE]]

RemoveAt(seq, k) == [j \in 1..(Len(seq) - 1) |-> IF j < k THEN seq[j] ELSE seq[j + 1]]

\* Variant: startQuiz leaves the position where it was.
startQuizKeepsPosition ==
    /\ isQuizStarted' = TRUE
    /\ startTime' = now
    /\ questions' = resetAll(questions)
    /\ screen' = "content"
    /\ pending' = MarkStale(pending)
    /\ submitted' = FALSE
    /\ UNCHANGED <<currentQuestionIndex, isQuizCompleted, endTime, attempts,
                   bestScore, now>>
    /\ UNCHANGED serverVars

startQuiz ==
    /\ isQuizStarted' = TRUE
    /\ startTime' = now
    /\ currentQuestionIndex' = 0
    /\ questions' = resetAll(questions)
    /\ screen' = "content"
    /\ pending' = MarkStale(pending)
    /\ submitted' = FALSE
    /\ UNCHANGED <<isQuizCompleted, endTime, attempts, bestScore, now>>
    /\ UNCHANGED serverVars

\* Variant: an answer moves the quiz on to the next question.
handleAnswerChangeAdvances(questionId, answerIndex) ==
    /\ \E i \in 1..Len(questions) : QUIZ_QUESTIONS[i].id = questionId
    /\ questions' = [i \in 1..Len(questions) |->
                        IF QUIZ_QUESTIONS[i].id = questionId
                        THEN setUserAnswer(questions[i], answerIndex)
                        ELSE questions[i]]
    /\ currentQuestionIndex' = IF currentQuestionIndex < Len(questions) - 1
                               THEN currentQuestionIndex + 1
                               ELSE currentQuestionIndex
    /\ UNCHANGED <<isQuizStarted, isQuizCompleted, startTime,
                   endTime, screen, pending, submitted, attempts, bestScore, now>>
    /\ UNCHANGED serverVars

\* questions.find(q => q.id === questionId), then setUserAnswer
handleAnswerChange(questionId, answerIndex) ==
    /\ \E i \in 1..Len(questions) : QUIZ_QUESTIONS[i].id = questionId
    /\ questions' = [i \in 1..Len(questions) |->
                        IF QUIZ_QUESTIONS[i].id = questionId
                        THEN setUserAnswer(questions[i], answerIndex)
                        ELSE questions[i]]
    /\ UNCHANGED <<currentQuestionIndex, isQuizStarted, isQuizCompleted, startTime,
                   endTime, screen, pending, submitted, attempts, bestScore, now>>
    /\ UNCHANGED serverVars

\* Variant: previousQuestion without its test of the first question.
previousQuestionNoGuard ==
    /\ currentQuestionIndex' = currentQuestionIndex - 1
    /\ UNCHANGED <<questions, isQuizStarted, isQuizCompleted, startTime, endTime,
                   screen, pending, submitted, attempts, bestScore, now>>
    /\ UNCHANGED serverVars

previousQuestion ==
    /\ currentQuestionIndex > 0
    /\ currentQuestionIndex' = currentQuestionIndex - 1
    /\ UNCHANGED <<questions, isQuizStarted, isQuizCompleted, startTime, endTime,
                   screen, pending, submitted, attempts, bestScore, now>>
    /\ UNCHANGED serverVars

\* Variant: nextQuestion moves on only from an answered question.
nextQuestionRequiresAnswer ==
    /\ currentQuestionIndex < Len(questions) - 1
    /\ questions[currentQuestionIndex + 1].isAnswered
    /\ currentQuestionIndex' = currentQuestionIndex + 1
    /\ UNCHANGED <<questions, isQuizStarted, isQuizCompleted, startTime, endTime,
                   screen, pending, submitted, attempts, bestScore, now>>
    /\ UNCHANGED serverVars

\* Variant: nextQuestion tests against the length, not the last index.
nextQuestionOffByOne ==
    /\ currentQuestionIndex < Len(questions)
    /\ currentQuestionIndex' = currentQuestionIndex + 1
    /\ UNCHANGED <<questions, isQuizStarted, isQuizCompleted, startTime, endTime,
                   screen, pending, submitted, attempts, bestScore, now>>
    /\ UNCHANGED serverVars

nextQuestion ==
    /\ currentQuestionIndex < Len(questions) - 1
    /\ currentQuestionIndex' = currentQuestionIndex + 1
    /\ UNCHANGED <<questions, isQuizStarted, isQuizCompleted, startTime, endTime,
                   screen, pending, submitted, attempts, bestScore, now>>
    /\ UNCHANGED serverVars

goToQuestion(questionIndex) ==
    /\ questionIndex >= 0 /\ questionIndex < Len(questions)
    /\ currentQuestionIndex' = questionIndex
    /\ UNCHANGED <<questions, isQuizStarted, isQuizCompleted, startTime, endTime,
                   screen, pending, submitted, attempts, bestScore, now>>
    /\ UNCHANGED serverVars

\* goToQuestion has no throw statement and no return value: on either side
\* of its test the call returns undefined, and nothing reports the index.
goToQuestionThrows(questionIndex) == FALSE

\* Variant: some question is answered.
allAnsweredSome(qs) == \E i \in 1..Len(qs) : qs[i].isAnswered

\* updateNavigation: this.questions.every(q => q.isAnswered)
allAnswered(qs) == \A i \in 1..Len(qs) : qs[i].isAnswered

Unanswered(qs) == {i \in 1..Len(qs) : ~qs[i].isAnswered}

\* submitQuiz up to its await: the confirm dialog, the loading screen,
\* calculateResults (which sets endTime) and the request sent.
submitQuiz(confirmSubmit) ==
    /\ Unanswered(questions) # {} => confirmSubmit
    /\ Len(pending) + Len(attempts) < MaxSubmits
    /\ screen' = "loading"
    /\ endTime' = now
    /\ pending' = Append(pending,
                    [results |-> calculateResults(questions, startTime, now),
                     stale |-> FALSE,
                     fetches |-> postOnce])
    /\ submitted' = TRUE
    /\ UNCHANGED <<questions, currentQuestionIndex, isQuizStarted, isQuizCompleted,
                   startTime, attempts, bestScore, now>>
    /\ UNCHANGED serverVars

\* showResults as wrapped at initialisation: recordAttempt, then the original
showResults(results) ==
    /\ recordAttempt(results)
    /\ isQuizCompleted' = TRUE
    /\ screen' = "results"

showErrorScreen ==
    /\ screen' = "error"
    /\ UNCHANGED <<isQuizCompleted, attempts, bestScore>>

\* submitQuiz resumed after the server answered 201
SubmitResolved(k) ==
    /\ k \in 1..Len(pending)
    /\ ServerAccepts(Payload(pending[k].results))
    /\ showResults(pending[k].results)
    /\ pending' = RemoveAt(pending, k)
    /\ UNCHANGED <<questions, currentQuestionIndex, isQuizStarted, startTime,
                   endTime, submitted, now>>
    /\ UNCHANGED serverVars

\* Variant: the catch block also resets the questions.
SubmitRejectedResets(k) ==
    /\ k \in 1..Len(pending)
    /\ showErrorScreen
    /\ pending' = RemoveAt(pending, k)
    /\ questions' = resetAll(questions)
    /\ UNCHANGED <<currentQuestionIndex, isQuizStarted, startTime,
                   endTime, submitted, now>>
    /\ UNCHANGED serverVars

\* submitQuiz resumed in its catch: fetch failed or the response was not ok
SubmitRejected(k) ==
    /\ k \in 1..Len(pending)
    /\ showErrorScreen
    /\ pending' = RemoveAt(pending, k)
    /\ UNCHANGED <<questions, currentQuestionIndex, isQuizStarted, startTime,
                   endTime, submitted, now>>
    /\ UNCHANGED serverVars

\* Variant: retakeQuiz without the reset of the questions.
retakeQuizKeepsAnswers ==
    /\ isQuizStarted' = FALSE
    /\ isQuizCompleted' = FALSE
    /\ currentQuestionIndex' = 0
    /\ startTime' = NULL
    /\ endTime' = NULL
    /\ screen' = "welcome"
    /\ pending' = MarkStale(pending)
    /\ submitted' = FALSE
    /\ UNCHANGED <<questions, attempts, bestScore, now>>
    /\ UNCHANGED serverVars

retakeQuiz ==
    /\ isQuizStarted' = FALSE
    /\ isQuizCompleted' = FALSE
    /\ currentQuestionIndex' = 0
    /\ startTime' = NULL
    /\ endTime' = NULL
    /\ questions' = resetAll(questions)
    /\ screen' = "welcome"
    /\ pending' = MarkStale(pending)
    /\ submitted' = FALSE
    /\ UNCHANGED <<attempts, bestScore, now>>
    /\ UNCHANGED serverVars

Tick ==
    /\ now < Epoch + MaxClock
    /\ now' = now + 1
    /\ UNCHANGED <<questions, currentQuestionIndex, isQuizStarted, isQuizCompleted,
                   startTime, endTime, screen, pending, submitted, attempts,
                   bestScore>>
    /\ UNCHANGED serverVars

\* ------------------------------------------------------------------------
\* The quiz page: constructor, init and updateUI, then any event
\* ------------------------------------------------------------------------
ClientInit ==
    /\ questions = loadQuestions(NumQuestions)
    /\ currentQuestionIndex = 0
    /\ isQuizStarted = FALSE
    /\ isQuizCompleted = FALSE
    /\ startTime = NULL
    /\ endTime = NULL
    /\ screen = "welcome"
    /\ pending = <<>>
    /\ submitted = FALSE
    /\ attempts = <<>>
    /\ bestScore = 0
    /\ now = Epoch

ServerInit ==
    /\ req = EmptyBody
    /\ resp = Response("idle", {}, "")
    /\ store = <<>>
    /\ retryCall = NoRetry

Init == ClientInit /\ ServerInit

Next ==
    \/ startQuiz
    \/ \E id \in QuestionIds, a \in AnswerIndexes : handleAnswerChange(id, a)
    \/ previousQuestion
    \/ nextQuestion
    \/ \E i \in QuestionIndexes : goToQuestion(i)
    \/ \E c \in BOOLEAN : submitQuiz(c)
    \/ \E k \in 1..MaxSubmits : SubmitResolved(k)
    \/ \E k \in 1..MaxSubmits : SubmitRejected(k)
    \/ retakeQuiz
    \/ Tick

Spec == Init /\ [][Next]_vars

\* ------------------------------------------------------------------------
\* The validation chain as a function of the request body: every body of
\* ValidateBodies is handled once.
\* ------------------------------------------------------------------------
ValidateScores ==
    {Num(-1), Num(0), Num(11), Num(12), Num(13), Num(14), Num(49), Num(50),
     Num(51), Num(52), Num(56), Num(57), Num(58), Num(59), Num(90), Num(100),
     Num(101), Half(50), Str}
ValidateTotals ==
    {Num(0), Num(1), Num(3), Num(4), Num(8), Num(40), Num(50), Num(51), Half(3), Str}
ValidateCorrects ==
    {Num(-1), Num(0), Num(1), Num(2), Num(4), Num(5), Num(23), Num(50), Half(2), Str}
ValidateTimes ==
    {Undefined, Null, Num(0), Num(1), Num(3600), Num(3601), Half(1), Str}
ValidateCategories ==
    {CatUndefined, CatString,
     CatObject(<<Stats("Recycling", Num(1), Num(2)), Stats("Climate Change", Num(0), Num(1))>>),
     CatObject(<<Stats("Recycling", Num(1), Num(2)), Stats("Climate Change", Num(2), Num(1))>>),
     CatObject(<<Stats("Recycling", Num(0), Num(0))>>),
     CatObject(<<Stats("Recycling", Str, Num(1))>>),
     CatObject(<<Stats("Recycling", Half(0), Num(1))>>),
     CatObject(<<NotStats("Recycling")>>)}

ValidateBodies ==
    {Body(s, t, c, tt, cat) :
        s \in ValidateScores, t \in ValidateTotals, c \in ValidateCorrects,
        tt \in ValidateTimes, cat \in ValidateCategories}

InitValidate ==
    /\ ClientInit
    /\ req \in ValidateBodies
    /\ resp = Response("pending", {}, "")
    /\ store = <<>>
    /\ retryCall = NoRetry

NextValidate ==
    \/ submitQuizResults
    \/ submitQuizResultsSaveFails
    \/ RateLimited

SpecValidate == InitValidate /\ [][NextValidate]_vars

\* ------------------------------------------------------------------------
\* The server over a sequence of requests from untrusted clients
\* ------------------------------------------------------------------------
ServerBodies ==
    {Body(s, t, c, tt, cat) :
        s \in {Num(50), Num(51), Num(52), Num(90), Num(101), Half(50)},
        t \in {Num(4), Num(0), Num(51)},
        c \in {Num(2), Num(5), Half(2)},
        tt \in {Undefined, Num(0), Num(90)},
        cat \in {CatUndefined,
                 CatObject(<<Stats("Recycling", Num(2), Num(1))>>)}}

\* A request reaches the route once the previous one is answered.
Arrive(b) ==
    /\ resp.status # "pending"
    /\ Len(store) < MaxStore
    /\ req' = b
    /\ resp' = Response("pending", {}, "")
    /\ UNCHANGED store
    /\ UNCHANGED retryCall
    /\ UNCHANGED clientVars

NextServer ==
    \/ \E b \in ServerBodies : Arrive(b)
    \/ submitQuizResults
    \/ submitQuizResultsSaveFails
    \/ RateLimited

SpecServer == Init /\ [][NextServer]_vars

\* ------------------------------------------------------------------------
\* The read endpoints of the quiz router over the stored records.  A reply
\* carries, beside the fields of Response, the data of the endpoint.  The
\* records are in insertion order, which is the order of their completedAt
\* (default Date.now); period filters are left at "all".
\* ------------------------------------------------------------------------
Reply(status, message, data) ==
    [status |-> status, errors |-> {}, message |-> message, data |-> data]

\* validatePagination: limit absent (NULL), or parseInt(limit) in [1,100]
LimitRejected(limit) == limit # NULL /\ (limit < 1 \/ limit > 100)

\* The position of timeTaken in an ascending sort: null sorts before every
\* number.
TimeKey(d) == IF d.timeTaken.type = "null" THEN 0 ELSE d.timeTaken.twice

\* Variant: sort({ score: -1, timeTaken: -1 })
SortBeforeSlowFirst(a, b) ==
    \/ a.score.twice > b.score.twice
    \/ a.score.twice = b.score.twice /\ TimeKey(a) > TimeKey(b)

\* sort({ score: -1, timeTaken: 1 }): a comes strictly before b
SortBefore(a, b) ==
    \/ a.score.twice > b.score.twice
    \/ a.score.twice = b.score.twice /\ TimeKey(a) < TimeKey(b)

Take(seq, n) == IF Len(seq) > n THEN SubSeq(seq, 1, n) ELSE seq

\* find().sort().limit(): every order of the records the sort allows (the
\* order of records with equal keys is not determined), cut at limit
SortedFinds(st, limit) ==
    {Take([i \in 1..Len(st) |-> st[p[i]]], limit) :
        p \in {q \in [1..Len(st) -> 1..Len(st)] :
                  /\ \A i, j \in 1..Len(st) : i # j => q[i] # q[j]
                  /\ \A i, j \in 1..Len(st) :
                         i < j => ~SortBefore(st[q[j]], st[q[i]])}}

\* Variant: the sorted records are written back as the collection.
getLeaderboardSortsInPlace(limit) ==
    /\ resp.status # "pending"
    /\ ~LimitRejected(limit)
    /\ \E lb \in SortedFinds(store, Len(store)) :
           /\ store' = lb
           /\ resp' = Reply("200", "leaderboard", lb)
    /\ UNCHANGED req
    /\ UNCHANGED retryCall
    /\ UNCHANGED clientVars

\* GET /leaderboard: validatePagination, then getLeaderboard (limit 10 by
\* default); rank is the position in data
getLeaderboard(limit) ==
    /\ resp.status # "pending"
    /\ IF LimitRejected(limit)
       THEN resp' = Reply("400", "Limit must be between 1 and 100", <<>>)
       ELSE \E lb \in SortedFinds(store, IF limit = NULL THEN 10 ELSE limit) :
               resp' = Reply("200", "leaderboard", lb)
    /\ UNCHANGED <<req, store>>
    /\ UNCHANGED retryCall
    /\ UNCHANGED clientVars

\* $bucket with boundaries [0, 20, 40, 60, 80, 100] and default 'other': a
\* value is in the bucket of the greatest boundary not above it when it is
\* below the last boundary, else in 'other'
boundaries == <<0, 20, 40, 60, 80, 100>>

Bucket(score) ==
    IF \E i \in 1..(Len(boundaries) - 1) :
           2 * boundaries[i] <= score.twice /\ score.twice < 2 * boundaries[i + 1]
    THEN [other |-> FALSE,
          lower |-> boundaries[CHOOSE i \in 1..(Len(boundaries) - 1) :
                       2 * boundaries[i] <= score.twice
                       /\ score.twice < 2 * boundaries[i + 1]]]
    ELSE [other |-> TRUE, lower |-> 0]

\* getScoreDistribution: one entry per bucket that holds a record
getScoreDistribution(st) ==
    {[id |-> Bucket(st[k].score),
      count |-> Cardinality({j \in 1..Len(st) : Bucket(st[j].score) = Bucket(st[k].score)})] :
        k \in 1..Len(st)}

\* GET /stats: the score distribution of the reply
getQuizStats ==
    /\ resp.status # "pending"
    /\ resp' = Reply("200", "stats", getScoreDistribution(store))
    /\ UNCHANGED <<req, store>>
    /\ UNCHANGED retryCall
    /\ UNCHANGED clientVars

Reverse(seq) == [i \in 1..Len(seq) |-> seq[Len(seq) + 1 - i]]

\* GET /recent: validatePagination, then the latest records first
getRecentResults(limit) ==
    /\ resp.status # "pending"
    /\ resp' = IF LimitRejected(limit)
               THEN Reply("400", "Limit must be between 1 and 100", <<>>)
               ELSE Reply("200", "recent",
                          Take(Reverse(store), IF limit = NULL THEN 10 ELSE limit))
    /\ UNCHANGED <<req, store>>
    /\ UNCHANGED retryCall
    /\ UNCHANGED clientVars

\* GET /analytics: the attempts of the daily trend, over one day
getQuizAnalytics ==
    /\ resp.status # "pending"
    /\ resp' = Reply("200", "analytics", Len(store))
    /\ UNCHANGED <<req, store>>
    /\ UNCHANGED retryCall
    /\ UNCHANGED clientVars

\* GET /export (json, no date filter): every record, the latest first
exportQuizData ==
    /\ resp.status # "pending"
    /\ resp' = Reply("200", "export", Reverse(store))
    /\ UNCHANGED <<req, store>>
    /\ UNCHANGED retryCall
    /\ UNCHANGED clientVars

QueryBodies ==
    {Body(st[1], Num(5), st[2], tt, CatUndefined) :
        st \in {<<Num(0), Num(0)>>, <<Num(20), Num(1)>>, <<Num(80), Num(4)>>,
                <<Num(100), Num(5)>>},
        tt \in {Undefined, Num(90), Num(120)}}

Limits == {NULL, 0, 1}

NextQueries ==
    \/ \E b \in QueryBodies : Arrive(b)
    \/ submitQuizResults
    \/ \E limit \in Limits : getLeaderboard(limit)
    \/ getQuizStats
    \/ \E limit \in Limits : getRecentResults(limit)
    \/ getQuizAnalytics
    \/ exportQuizData

SpecQueries == Init /\ [][NextQueries]_vars

\* ------------------------------------------------------------------------
\* calculateResults over the whole bank: every question unanswered,
\* answered correctly or answered wrongly when the quiz is submitted
\* ------------------------------------------------------------------------
AnswerState(i, choice) ==
    CASE choice = "unanswered" -> QuizQuestion
      [] choice = "correct" ->
            setUserAnswer(QuizQuestion, QUIZ_QUESTIONS[i].correctAnswer)
      [] choice = "wrong" ->
            setUserAnswer(QuizQuestion, (QUIZ_QUESTIONS[i].correctAnswer + 1) % 4)

CalcSessions ==
    {[i \in 1..Len(QUIZ_QUESTIONS) |-> AnswerState(i, f[i])] :
        f \in [1..Len(QUIZ_QUESTIONS) -> {"unanswered", "correct", "wrong"}]}

InitCalc ==
    /\ questions \in CalcSessions
    /\ currentQuestionIndex = Len(QUIZ_QUESTIONS) - 1
    /\ isQuizStarted = TRUE
    /\ isQuizCompleted = FALSE
    /\ startTime = Epoch
    /\ endTime = NULL
    /\ screen = "content"
    /\ pending = <<>>
    /\ submitted = FALSE
    /\ attempts = <<>>
    /\ bestScore = 0
    /\ now = Epoch + 1
    /\ ServerInit

NextCalc == \E c \in BOOLEAN : submitQuiz(c)

SpecCalc == InitCalc /\ [][NextCalc]_vars

\* ------------------------------------------------------------------------
\* submitQuiz over a bank of any size, the empty one included: the
\* questions array holds a prefix of the bank, every question unanswered or
\* answered with one of the option values.
\* ------------------------------------------------------------------------
BankSizes == 0..NumQuestions

BankSessions ==
    UNION {[1..n -> {QuizQuestion} \cup
                    {setUserAnswer(QuizQuestion, a) : a \in AnswerIndexes}] :
           n \in BankSizes}

InitBank ==
    /\ questions \in BankSessions
    /\ currentQuestionIndex = 0
    /\ isQuizStarted = TRUE
    /\ isQuizCompleted = FALSE
    /\ startTime = Epoch
    /\ endTime = NULL
    /\ screen = "content"
    /\ pending = <<>>
    /\ submitted = FALSE
    /\ attempts = <<>>
    /\ bestScore = 0
    /\ now = Epoch
    /\ ServerInit

NextBank ==
    \/ \E c \in BOOLEAN : submitQuiz(c)
    \/ \E k \in 1..MaxSubmits : SubmitRejected(k)
    \/ Tick

SpecBank == InitBank /\ [][NextBank]_vars

\* ------------------------------------------------------------------------
\* One call of Utils.retry, for every fn, maxRetries and baseDelay of the
\* bounds
\* ------------------------------------------------------------------------
InitRetry ==
    /\ ClientInit
    /\ req = EmptyBody
    /\ resp = Response("idle", {}, "")
    /\ store = <<>>
    /\ retryCall \in {RetryEntered(fn, m, d) :
                         fn \in FnBehaviours, m \in 0..MaxRetriesBound, d \in BaseDelays}

NextRetry ==
    \/ retryCallsFn
    \/ retrySleeps

SpecRetry == InitRetry /\ [][NextRetry]_vars
\* ------------------------------------------------------------------------
\* QuizStatistics over any sequence of recorded attempts: the wrapped
\* showResults called with each result a session of the bank can compute
\* ------------------------------------------------------------------------
StatsResults ==
    {calculateResults(qs, Epoch, Epoch + 2) :
        qs \in [1..NumQuestions -> {QuizQuestion} \cup
                   {setUserAnswer(QuizQuestion, a) : a \in AnswerIndexes}]}

showResultsCalled(results) ==
    /\ showResults(results)
    /\ UNCHANGED <<questions, currentQuestionIndex, isQuizStarted, startTime,
                   endTime, pending, submitted, now>>
    /\ UNCHANGED serverVars

NextStats == \E results \in StatsResults : showResultsCalled(results)

SpecStats == Init /\ [][NextStats]_vars
\* ------------------------------------------------------------------------
\* One attempt against the server: the quiz is started once and never
\* retaken; each submitQuiz call posts its payload, the route handles it,
\* and the answer reaches the page or is lost on the way.
\* ------------------------------------------------------------------------
startFirstAttempt ==
    /\ ~isQuizStarted
    /\ startQuiz

\* The route stores the record and answers 201; submitQuiz resumes after
\* its await and shows the results.
PostStoredAndResolved(k) ==
    /\ k \in 1..Len(pending)
    /\ Len(store) < MaxStore
    /\ LET b == Payload(pending[k].results)
       IN  /\ ServerAccepts(b)
           /\ req' = b
           /\ store' = Append(store, QuizResultData(b))
           /\ resp' = Response("201", {}, "Quiz results saved successfully!")
    /\ showResults(pending[k].results)
    /\ pending' = RemoveAt(pending, k)
    /\ UNCHANGED <<questions, currentQuestionIndex, isQuizStarted, startTime,
                   endTime, submitted, now, retryCall>>

\* The route stores the record and answers 201, and the response does not
\* reach the page: fetch rejects and submitQuiz resumes in its catch.
PostStoredAndLost(k) ==
    /\ k \in 1..Len(pending)
    /\ Len(store) < MaxStore
    /\ LET b == Payload(pending[k].results)
       IN  /\ ServerAccepts(b)
           /\ req' = b
           /\ store' = Append(store, QuizResultData(b))
           /\ resp' = Response("201", {}, "Quiz results saved successfully!")
    /\ showErrorScreen
    /\ pending' = RemoveAt(pending, k)
    /\ UNCHANGED <<questions, currentQuestionIndex, isQuizStarted, startTime,
                   endTime, submitted, now, retryCall>>

\* The route answers 400 and stores nothing; submitQuiz resumes in its catch.
PostRefused(k) ==
    /\ k \in 1..Len(pending)
    /\ LET b == Payload(pending[k].results)
       IN  /\ ~ServerAccepts(b)
           /\ req' = b
           /\ resp' = IF validateQuizSubmission(b) # {}
                      THEN Response("400", validateQuizSubmission(b), "Validation failed")
                      ELSE Response("400", {}, ControllerCheck(b))
    /\ showErrorScreen
    /\ pending' = RemoveAt(pending, k)
    /\ UNCHANGED <<questions, currentQuestionIndex, isQuizStarted, startTime,
                   endTime, submitted, now, store, retryCall>>

NextAttempt ==
    \/ startFirstAttempt
    \/ \E id \in QuestionIds, a \in AnswerIndexes : handleAnswerChange(id, a)
    \/ nextQuestion
    \/ \E c \in BOOLEAN : submitQuiz(c)
    \/ \E k \in 1..MaxSubmits : PostStoredAndResolved(k)
    \/ \E k \in 1..MaxSubmits : PostStoredAndLost(k)
    \/ \E k \in 1..MaxSubmits : PostRefused(k)
    \/ \E k \in 1..MaxSubmits : SubmitRejected(k)
    \/ Tick

SpecAttempt == Init /\ [][NextAttempt]_vars
\* ========================================================================
\* Properties
\* ========================================================================

\* The score, total and correct count of a body pass the range checks.
StructurallyValid(b) ==
    /\ IsInteger(b.score) /\ b.score.twice >= 0 /\ b.score.twice <= 200
    /\ IsInteger(b.totalQuestions)
    /\ b.totalQuestions.twice >= 2 /\ b.totalQuestions.twice <= 100
    /\ IsInteger(b.correctAnswers) /\ b.correctAnswers.twice >= 0
    /\ b.correctAnswers.twice <= b.totalQuestions.twice

\* round(c / t * 100): the integer s with s - 1/2 <= x < s + 1/2, x being
\* the double the quotient and the product evaluate to.
RoundedPercent(c, t) ==
    CHOOSE s \in 0..200 :
        IF FloatBelowHalf(2 * c, 2 * t)
        THEN 2 * s * t - t < 200 * c /\ 200 * c <= 2 * s * t + t
        ELSE 2 * s * t - t <= 200 * c /\ 200 * c < 2 * s * t + t

Difference(b) ==
    Abs(b.score.twice \div 2
        - RoundedPercent(b.correctAnswers.twice \div 2, b.totalQuestions.twice \div 2))

Handled == resp.status \in {"201", "400", "500"}

RecordValid(d) ==
    /\ StructurallyValid(d)
    /\ Difference(d) <= 1

C3_ScoreIsRoundedPercent ==
    \A k \in 1..Len(pending) :
        LET r == pending[k].results
        IN  /\ r.totalQuestions = Len(questions)
            /\ 2 * r.score * r.totalQuestions - r.totalQuestions
                   <= 200 * r.correctAnswers
            /\ 200 * r.correctAnswers
                   < 2 * r.score * r.totalQuestions + r.totalQuestions

C3_Witness ==
    /\ Len(pending) = 1
    /\ pending[1].results.correctAnswers = 3
    /\ pending[1].results.score = 30

RECURSIVE SumOver(_, _, _)
SumOver(scores, k, field) ==
    IF k = 0 THEN 0
    ELSE SumOver(scores, k - 1, field)
         + (IF field = "total" THEN scores[k].total ELSE scores[k].correct)

\* C4: in every Result the totals of the categories add up to
\* totalQuestions and their corrects add up to correctAnswers.
C4_CategorySums ==
    \A k \in 1..Len(pending) :
        LET r == pending[k].results
            n == Len(r.categoryScores)
        IN  /\ SumOver(r.categoryScores, n, "total") = r.totalQuestions
            /\ SumOver(r.categoryScores, n, "correct") = r.correctAnswers

C4_Witness ==
    /\ Len(pending) = 1
    /\ pending[1].results.correctAnswers = 5
    /\ \E k \in 1..Len(pending[1].results.categoryScores) :
           LET e == pending[1].results.categoryScores[k]
           IN  e.correct = 1 /\ e.total = 3
    /\ \E i \in 1..Len(questions) : ~questions[i].isAnswered

AnsweredCorrectly(i) ==
    /\ questions[i].isAnswered
    /\ questions[i].userAnswer = QUIZ_QUESTIONS[i].correctAnswer

InCategory(cat) == {i \in 1..Len(questions) : QUIZ_QUESTIONS[i].category = cat}

\* C5: a Result is produced whatever was answered; an unanswered question
\* counts as incorrect, adds 1 to its category's total and nothing to its
\* correct; nothing answered gives correctAnswers 0 and score 0; 8 of 10
\* answered correctly and 2 unanswered gives correct 8, total 10, score 80.
C5_UnansweredCountAsIncorrect ==
    /\ (submitted => Len(pending) >= 1)
    /\ \A k \in 1..Len(pending) :
        LET r == pending[k].results
            right == {i \in 1..Len(questions) : AnsweredCorrectly(i)}
        IN  /\ r.totalQuestions = Len(questions)
            /\ r.correctAnswers = Cardinality(right)
            /\ \A i \in 1..Len(questions) :
                   \E e \in 1..Len(r.categoryScores) :
                       LET cs == r.categoryScores[e]
                       IN  /\ cs.name = QUIZ_QUESTIONS[i].category
                           /\ cs.total = Cardinality(InCategory(cs.name))
                           /\ cs.correct = Cardinality(InCategory(cs.name) \cap right)
            /\ Unanswered(questions) = 1..Len(questions) =>
                   r.correctAnswers = 0 /\ r.score = 0
            /\ (Cardinality(right) = 8 /\ Cardinality(Unanswered(questions)) = 2) =>
                   r.correctAnswers = 8 /\ r.totalQuestions = 10 /\ r.score = 80

C5_Witness ==
    /\ Len(pending) = 1
    /\ Cardinality(Unanswered(questions)) = 2
    /\ Cardinality({i \in 1..Len(questions) : AnsweredCorrectly(i)}) = 8
    /\ pending[1].results.score = 80

AnswerOrNavigationEvent ==
    \/ \E id \in QuestionIds, a \in AnswerIndexes : handleAnswerChange(id, a)
    \/ previousQuestion
    \/ nextQuestion
    \/ \E i \in QuestionIndexes : goToQuestion(i)

\* C6: once submitQuiz has run, and until the quiz is started again or
\* retaken, no answer-selection or navigation event changes the answer
\* state of a question or the current position.
C6_ReadOnlyAfterSubmit ==
    [][(isQuizStarted /\ submitted /\ AnswerOrNavigationEvent) =>
           (questions' = questions /\ currentQuestionIndex' = currentQuestionIndex)]_vars

InFlight == {k \in 1..Len(pending) : ~pending[k].stale}

\* C7: at most one submission request of the started session is in flight.
C7_OneRequestInFlight == isQuizStarted => Cardinality(InFlight) <= 1

\* C8: the response of a request started before the quiz was started again
\* or retaken changes neither the completed flag, the visible screen nor the
\* recorded statistics.
C8_StaleResponseIgnored ==
    [][\A k \in 1..Len(pending) :
           (pending[k].stale /\ (SubmitResolved(k) \/ SubmitRejected(k))) =>
               UNCHANGED <<isQuizCompleted, screen, attempts, bestScore>>]_vars

\* C9: neither submitQuiz nor its failure path changes the selected answer
\* or the answered flag of any question, and from the error screen a
\* further submit goes through with the answers as they are.
C9_FailedSubmitKeepsSession ==
    /\ [][((\E c \in BOOLEAN : submitQuiz(c)) \/ (\E k \in 1..Len(pending) : SubmitRejected(k)))
             => questions' = questions]_vars
    /\ [][(screen = "error" /\ \E c \in BOOLEAN : submitQuiz(c)) =>
             /\ Len(pending') = Len(pending) + 1
             /\ pending'[Len(pending')].results.correctAnswers
                    = Cardinality({i \in 1..Len(questions) : AnsweredCorrectly(i)})]_vars
    /\ [](screen = "error" /\ Len(pending) + Len(attempts) < MaxSubmits
             => ENABLED submitQuiz(TRUE))

C9_Witness ==
    /\ screen = "error"
    /\ submitted
    /\ Len(pending) = 1
    /\ ~pending[1].stale
    /\ \A i \in 1..Len(questions) : AnsweredCorrectly(i)

\* C10: within one attempt the end timestamp is assigned once: a submit
\* from the error screen of an attempt already submitted leaves endTime
\* as the first submission set it.
C10_EndTimeSetOnce ==
    [][(submitted /\ screen = "error" /\ \E c \in BOOLEAN : submitQuiz(c)) =>
           endTime' = endTime]_vars

\* C11: a retry after a failed submission sends the Result that was already
\* computed: the payload of a submitQuiz made from the error screen of an
\* attempt is the payload of that attempt's failed submission, whose figures
\* are those of the session's answers and whose timeTaken runs up to the
\* endTime recorded when it was computed.
C11_RetryPayloadIdentical ==
    [][\A c \in BOOLEAN :
          (submitted /\ screen = "error" /\ submitQuiz(c)) =>
              Payload(pending'[Len(pending')].results)
                  = Payload(calculateResults(questions, startTime, endTime))]_vars

\* C12: the failure of a submission the server would accept (a transient
\* failure) is surfaced, by the error screen, only after the request was
\* retried: more than one fetch was made for it.
C12_BoundedRetryWithBackoff ==
    [][\A k \in 1..Len(pending) :
          (SubmitRejected(k) /\ ServerAccepts(Payload(pending[k].results))) =>
              pending[k].fetches > 1]_vars

\* The question of the session a change event names, 0 if there is none.
IndexOfId(questionId) ==
    IF \E i \in 1..Len(questions) : QUIZ_QUESTIONS[i].id = questionId
    THEN CHOOSE i \in 1..Len(questions) : QUIZ_QUESTIONS[i].id = questionId
    ELSE 0

ValidOption(i, answerIndex) ==
    answerIndex >= 0 /\ answerIndex < QUIZ_QUESTIONS[i].options

\* C13: selecting an option index that is not an index of the question's
\* options leaves every answer state as it was; selecting a valid one sets
\* the question's userAnswer to it and isAnswered to true.
C13_SelectOutOfRangeFails ==
    [][\A id \in QuestionIds, a \in AnswerIndexes :
          handleAnswerChange(id, a) =>
              IF ValidOption(IndexOfId(id), a)
              THEN questions'[IndexOfId(id)] = [userAnswer |-> a, isAnswered |-> TRUE]
              ELSE questions' = questions]_vars

\* C14: in every reachable state 0 <= currentQuestionIndex < the number of
\* questions.
C14_IndexInRange ==
    currentQuestionIndex >= 0 /\ currentQuestionIndex < Len(questions)

C14_Witness ==
    /\ isQuizStarted
    /\ Len(questions) > 1
    /\ currentQuestionIndex = Len(questions) - 1

\* C15: away from the last question nextQuestion can act and moves the
\* position by exactly +1, away from the first previousQuestion can act and
\* moves it by exactly -1, neither changes an answer, and at the last /
\* first question the call changes nothing.
C15_NextPreviousClamped ==
    /\ [](currentQuestionIndex < Len(questions) - 1 => ENABLED nextQuestion)
    /\ [](currentQuestionIndex > 0 => ENABLED previousQuestion)
    /\ [](currentQuestionIndex >= Len(questions) - 1 => ~ENABLED nextQuestion)
    /\ [](currentQuestionIndex <= 0 => ~ENABLED previousQuestion)
    /\ [][nextQuestion =>
             /\ currentQuestionIndex' = currentQuestionIndex + 1
             /\ currentQuestionIndex' <= Len(questions) - 1
             /\ questions' = questions]_vars
    /\ [][previousQuestion =>
             /\ currentQuestionIndex' = currentQuestionIndex - 1
             /\ currentQuestionIndex' >= 0
             /\ questions' = questions]_vars

C15_Witness ==
    /\ currentQuestionIndex = Len(questions) - 1
    /\ currentQuestionIndex > 0
    /\ ~ENABLED nextQuestion
    /\ ENABLED previousQuestion

\* C16: goToQuestion with an index outside [0, number of questions - 1]
\* fails with an error, and with an index inside it sets the position to
\* the index.
C16_JumpOutOfRangeFails ==
    /\ [](\A i \in QuestionIndexes :
             (i < 0 \/ i > Len(questions) - 1) => goToQuestionThrows(i))
    /\ [][\A i \in QuestionIndexes :
             goToQuestion(i) =>
                 /\ i >= 0 /\ i <= Len(questions) - 1
                 /\ currentQuestionIndex' = i]_vars

\* C17: the all-answered predicate is true iff every question was selected
\* since the last start or retake, in whatever order: it is false after
\* startQuiz and retakeQuiz, a selection on one question makes it true iff
\* every other question is answered, it agrees with the unanswered count
\* of submitQuiz, and submitQuiz asks for no confirmation exactly when it
\* is true.
C17_CompleteIffAllAnswered ==
    /\ [](allAnswered(questions) <=> Unanswered(questions) = {})
    /\ [](Len(pending) + Len(attempts) < MaxSubmits =>
             (ENABLED submitQuiz(FALSE) <=> allAnswered(questions)))
    /\ [][\A id \in QuestionIds, a \in AnswerIndexes :
             handleAnswerChange(id, a) =>
                 (allAnswered(questions') <=>
                     \A j \in (1..Len(questions)) \ {IndexOfId(id)} :
                         questions[j].isAnswered)]_vars
    /\ [][(startQuiz \/ retakeQuiz) => ~allAnswered(questions')]_vars

C17_Witness ==
    /\ allAnswered(questions)
    /\ screen = "loading"
    /\ Len(pending) = 1
    /\ questions[1].userAnswer # questions[Len(questions)].userAnswer

\* C18: in every reachable state, for every question, isAnswered is true
\* iff userAnswer is set (not null).
C18_AnsweredIffSelected ==
    \A i \in 1..Len(questions) :
        questions[i].isAnswered <=> questions[i].userAnswer # NULL

C18_Witness ==
    /\ ~isQuizStarted
    /\ Len(attempts) = 1
    /\ attempts[1].correctAnswers = 1
    /\ \A i \in 1..Len(questions) : ~questions[i].isAnswered

\* C19: startQuiz can be called in every reachable state, and after it the
\* session holds every question of the bank, in bank order, with no answer
\* set, the position is 0, the quiz is started and startTime is the time
\* of the call.
C19_StartIsFresh ==
    /\ [](ENABLED startQuiz)
    /\ [][startQuiz =>
             /\ questions' = loadQuestions(NumQuestions)
             /\ \A i \in 1..NumQuestions :
                    ~questions'[i].isAnswered /\ questions'[i].userAnswer = NULL
             /\ currentQuestionIndex' = 0
             /\ isQuizStarted'
             /\ startTime' = now]_vars

C19_Witness ==
    /\ isQuizStarted
    /\ screen = "content"
    /\ isQuizCompleted
    /\ endTime = Epoch + 1
    /\ startTime = Epoch + 1
    /\ Len(attempts) = 1
    /\ attempts[1].correctAnswers = 1
    /\ questions = loadQuestions(NumQuestions)
    /\ currentQuestionIndex = 0

\* C20: after retakeQuiz every question is unanswered, the position is 0,
\* startTime and endTime are null, the started and completed flags are
\* false, and the Results computed before it (those in flight, the recorded
\* attempts, the stored records) are what they were.
C20_RetakeDiscardsSession ==
    [][retakeQuiz =>
          /\ questions' = loadQuestions(NumQuestions)
          /\ currentQuestionIndex' = 0
          /\ startTime' = NULL /\ endTime' = NULL
          /\ ~isQuizStarted' /\ ~isQuizCompleted'
          /\ attempts' = attempts /\ bestScore' = bestScore
          /\ Len(pending') = Len(pending)
          /\ \A k \in 1..Len(pending) : pending'[k].results = pending[k].results
          /\ store' = store]_vars

C20_Witness ==
    /\ ~isQuizStarted /\ ~isQuizCompleted
    /\ screen = "welcome"
    /\ startTime = NULL /\ endTime = NULL
    /\ currentQuestionIndex = 0
    /\ questions = loadQuestions(NumQuestions)
    /\ Len(pending) = 1 /\ pending[1].stale
    /\ pending[1].results.correctAnswers = 1

\* C21: a selection changes the answer state of the question it names and
\* nothing else of the session: the position is what it was, and so are
\* the userAnswer and isAnswered of every other question.
C21_SelectFrame ==
    [][\A id \in QuestionIds, a \in AnswerIndexes :
          handleAnswerChange(id, a) =>
              /\ currentQuestionIndex' = currentQuestionIndex
              /\ questions'[IndexOfId(id)].userAnswer = a
              /\ \A j \in (1..Len(questions)) \ {IndexOfId(id)} :
                     questions'[j] = questions[j]]_vars

C21_Witness ==
    /\ isQuizStarted /\ ~submitted
    /\ currentQuestionIndex = 1
    /\ questions[1] = [userAnswer |-> 1, isAnswered |-> TRUE]
    /\ questions[2] = [userAnswer |-> 3, isAnswered |-> TRUE]

Navigation ==
    \/ nextQuestion
    \/ previousQuestion
    \/ \E i \in QuestionIndexes : goToQuestion(i)

\* C22: next, previous and goToQuestion can act from a question that is
\* not answered as from one that is, and they leave every question's
\* answer state, and so the option rendered as checked, unchanged.
C22_NavigationKeepsAnswers ==
    /\ [](currentQuestionIndex < Len(questions) - 1 => ENABLED nextQuestion)
    /\ [](currentQuestionIndex > 0 => ENABLED previousQuestion)
    /\ [](\A i \in 0..(Len(questions) - 1) :
             i # currentQuestionIndex => ENABLED goToQuestion(i))
    /\ [][Navigation =>
             /\ questions' = questions
             /\ \A i \in 1..Len(questions) :
                    CheckedOptions(questions', i) = CheckedOptions(questions, i)]_vars

C22_Witness ==
    /\ isQuizStarted /\ ~submitted
    /\ currentQuestionIndex = 0
    /\ ~questions[1].isAnswered
    /\ CheckedOptions(questions, 2) = {3}

\* C23: selecting again the option a question already has changes nothing,
\* and selecting a valid option b of a question that has option a leaves
\* exactly b selected.
C23_SelectIdempotent ==
    /\ [](\A id \in QuestionIds, a \in AnswerIndexes :
             (IndexOfId(id) # 0 /\ questions[IndexOfId(id)].isAnswered
                 /\ questions[IndexOfId(id)].userAnswer = a)
             => ~ENABLED (handleAnswerChange(id, a) /\ questions' # questions))
    /\ [](\A i \in 1..Len(questions), a \in AnswerIndexes :
             setUserAnswer(setUserAnswer(questions[i], a), a)
                 = setUserAnswer(questions[i], a))
    /\ [][\A id \in QuestionIds, b \in AnswerIndexes :
             (handleAnswerChange(id, b) /\ ValidOption(IndexOfId(id), b)) =>
                 /\ questions'[IndexOfId(id)].isAnswered
                 /\ CheckedOptions(questions', IndexOfId(id)) = {b}]_vars

C23_Witness ==
    /\ isQuizStarted /\ ~submitted
    /\ questions[1] = [userAnswer |-> 3, isAnswered |-> TRUE]
    /\ ~questions[2].isAnswered

Present(v) == v.type \notin {"undefined", "null"}

IntIn(v, lo, hi) ==
    /\ v.type = "number"
    /\ v.twice % 2 = 0
    /\ v.twice \div 2 >= lo /\ v.twice \div 2 <= hi

\* A category entry as the claims describe it.
EntryBad(e) ==
    \/ ~e.isObject
    \/ e.correct.type # "number" \/ e.total.type # "number"
    \/ e.correct.twice > e.total.twice
    \/ e.total.twice < 2

EntryGood(e) ==
    /\ e.isObject
    /\ e.correct.type = "number" /\ e.total.type = "number"
    /\ 0 <= e.correct.twice /\ e.correct.twice <= e.total.twice
    /\ e.total.twice >= 2

\* The fields of a body that violate a structural check.
Violations(b) ==
    {f \in {"score", "totalQuestions", "correctAnswers", "timeTaken", "categories"} :
        \/ /\ f = "score"
           /\ \/ ~IntIn(b.score, 0, 100)
              \/ /\ IsNumber(b.score) /\ IsNumber(b.totalQuestions)
                 /\ IsNumber(b.correctAnswers)
                 /\ ScoreMismatch(b.score, b.correctAnswers, b.totalQuestions)
        \/ f = "totalQuestions" /\ ~IntIn(b.totalQuestions, 1, 50)
        \/ /\ f = "correctAnswers"
           /\ \/ b.correctAnswers.type # "number"
              \/ b.correctAnswers.twice % 2 # 0
              \/ b.correctAnswers.twice < 0
              \/ /\ IsNumber(b.totalQuestions)
                 /\ b.correctAnswers.twice > b.totalQuestions.twice
        \/ f = "timeTaken" /\ Present(b.timeTaken) /\ ~IntIn(b.timeTaken, 1, 3600)
        \/ /\ f = "categories"
           /\ b.categories.type \notin {"undefined", "null"}
           /\ \/ b.categories.type # "object"
              \/ \E i \in 1..Len(b.categories.entries) :
                     ~EntryGood(b.categories.entries[i])}

\* C25: a body that violates several checks at once is answered with one
\* 400 whose errors name every violated field, not the first only, and
\* nothing is stored.
C25_AggregatedErrors ==
    (Handled /\ Violations(req) # {}) =>
        /\ resp.status = "400"
        /\ resp.errors = Violations(req)
        /\ store = <<>>

C25_Witness ==
    /\ resp.status = "400"
    /\ resp.errors = {"score", "totalQuestions", "correctAnswers", "timeTaken",
                      "categories"}
    /\ req.score = Num(101) /\ req.timeTaken = Num(3601)

TimeTakenOutOfRange(b) == Present(b.timeTaken) /\ ~IntIn(b.timeTaken, 1, 3600)

\* C29: a body whose timeTaken is present and is not an integer of
\* [1,3600] is answered 400 with an error on timeTaken and is not stored;
\* a body whose timeTaken is undefined or null, or an integer of the range,
\* has no error on timeTaken, and is not answered 400 when its other
\* fields are valid.
C29_TimeTakenGate ==
    Handled =>
        /\ ("timeTaken" \in validateQuizSubmission(req)) <=> TimeTakenOutOfRange(req)
        /\ TimeTakenOutOfRange(req) =>
               resp.status = "400" /\ "timeTaken" \in resp.errors /\ store = <<>>
        /\ ~TimeTakenOutOfRange(req) => "timeTaken" \notin resp.errors
        /\ (~Present(req.timeTaken) /\ Violations(req) \ {"timeTaken"} = {}) =>
               resp.status # "400"

C29_Witness ==
    /\ resp.status = "400"
    /\ resp.errors = {"timeTaken"}
    /\ req.timeTaken = Num(0)

\* C30: a body with a category entry that has correct > total, total < 1
\* or a non-numeric correct or total is answered 400 with an error on
\* categories and is not stored; a body whose every entry is numeric with
\* 0 <= correct <= total and total >= 1 has no error on categories.
C30_CategoriesGate ==
    (Handled /\ req.categories.type = "object") =>
        LET entries == req.categories.entries
        IN  /\ (\E i \in 1..Len(entries) : EntryBad(entries[i])) =>
                   /\ resp.status = "400"
                   /\ "categories" \in resp.errors
                   /\ store = <<>>
            /\ (\A i \in 1..Len(entries) : EntryGood(entries[i])) =>
                   /\ "categories" \notin validateQuizSubmission(req)
                   /\ "categories" \notin resp.errors

C30_Witness ==
    /\ resp.status = "400"
    /\ resp.errors = {"categories"}
    /\ req.categories = CatObject(<<Stats("Recycling", Num(0), Num(0))>>)

IsLeaderboard == resp.status = "200" /\ resp.message = "leaderboard"

HasTime(d) == d.timeTaken.type = "number"

IsStats == resp.status = "200" /\ resp.message = "stats"

\* C27: every stored score of 0..100 is counted in exactly one of the five
\* buckets of lower bounds 0, 20, 40, 60, 80, and a score of 100 is counted
\* in the bucket of lower bound 80.
C27_DistributionBuckets ==
    IsStats =>
        \A k \in 1..Len(store) :
            \E e \in resp.data :
                /\ ~e.id.other
                /\ e.id.lower \in {0, 20, 40, 60, 80}
                /\ 2 * e.id.lower <= store[k].score.twice
                /\ store[k].score.twice <= 2 * (e.id.lower + 20)
                /\ store[k].score.twice = 2 * (e.id.lower + 20) => e.id.lower = 80
                /\ \A f \in resp.data :
                       (f # e /\ ~f.id.other) =>
                           ~(2 * f.id.lower <= store[k].score.twice
                             /\ store[k].score.twice < 2 * (f.id.lower + 20))

\* C28: no quiz operation changes or removes a stored record: across every
\* step the records already stored keep their place and their fields, and
\* the count never decreases.
C28_AppendOnly ==
    [][/\ Len(store') >= Len(store)
       /\ \A k \in 1..Len(store) : store'[k] = store[k]]_vars

C28_Witness ==
    /\ Len(store) = 2
    /\ store[1].score = Num(80) /\ store[2].score = Num(100)
    /\ resp.status = "200" /\ resp.message = "export"

\* C31: a body whose totalQuestions is not an integer of [1,50] (0
\* included, text and fractions included) is answered 400 with an error
\* on totalQuestions and is not stored; an integer of [1,50] has no error
\* on totalQuestions.
C31_TotalQuestionsGate ==
    Handled =>
        /\ ("totalQuestions" \in validateQuizSubmission(req)) <=>
               ~IntIn(req.totalQuestions, 1, 50)
        /\ ~IntIn(req.totalQuestions, 1, 50) =>
               resp.status = "400" /\ "totalQuestions" \in resp.errors /\ store = <<>>
        /\ IntIn(req.totalQuestions, 1, 50) => "totalQuestions" \notin resp.errors

C31_Witness ==
    /\ resp.status = "400"
    /\ resp.errors = {"totalQuestions"}
    /\ req.totalQuestions = Num(0) /\ req.correctAnswers = Num(0)

\* correctAnswers is not an integer of [0, totalQuestions]; the upper end
\* applies when totalQuestions is a number.
CorrectAnswersOutOfRange(b) ==
    \/ b.correctAnswers.type # "number"
    \/ b.correctAnswers.twice % 2 # 0
    \/ b.correctAnswers.twice < 0
    \/ /\ b.totalQuestions.type = "number"
       /\ b.correctAnswers.twice > b.totalQuestions.twice

\* C32: a body whose correctAnswers is not an integer of
\* [0, totalQuestions] is answered 400 with an error on correctAnswers and
\* is not stored; an integer of the range has no error on correctAnswers.
C32_CorrectAnswersGate ==
    Handled =>
        /\ ("correctAnswers" \in validateQuizSubmission(req)) <=>
               CorrectAnswersOutOfRange(req)
        /\ CorrectAnswersOutOfRange(req) =>
               resp.status = "400" /\ "correctAnswers" \in resp.errors /\ store = <<>>
        /\ ~CorrectAnswersOutOfRange(req) => "correctAnswers" \notin resp.errors

C32_Witness ==
    /\ resp.status = "400"
    /\ "correctAnswers" \in resp.errors
    /\ req.correctAnswers = Num(5) /\ req.totalQuestions = Num(4)

\* C36: a body the middleware accepts (no validation error) passes the
\* checks of the controller, the schema validators and the pre-save hook:
\* it is never answered 400 by the controller, and save() accepts it.
C36_LayersAgree ==
    (Handled /\ validateQuizSubmission(req) = {}) =>
        /\ ControllerCheck(req) = "ok"
        /\ SchemaValid(QuizResultData(req))
        /\ PreSaveOk(QuizResultData(req))
        /\ resp.status # "400"

C36_Witness ==
    /\ resp.status = "201"
    /\ validateQuizSubmission(req) = {}
    /\ req.score = Num(51) /\ req.totalQuestions = Num(4) /\ req.correctAnswers = Num(2)
    /\ Len(store) = 1

\* C34: a client that started the quiz is never rejected by the validator:
\* whatever the answers and the time elapsed since the start, the payload
\* submitQuiz posts passes every check of validateQuizSubmission.
C34_HonestClientAccepted ==
    [][\A c \in BOOLEAN :
          (isQuizStarted /\ submitQuiz(c)) =>
              validateQuizSubmission(Payload(pending'[Len(pending')].results)) = {}]_vars

\* C37: isQuizCompleted holds only while a submit of the current attempt
\* has run and was answered with success: the flag is set only by the
\* success of a request of the current attempt, it does not outlive the
\* attempt, and a failed submit shows the error screen and adds no
\* statistics entry.
C37_CompletedOnlyAfterAccept ==
    /\ [](isQuizCompleted => submitted)
    /\ [][(~isQuizCompleted /\ isQuizCompleted') =>
             \E k \in 1..Len(pending) :
                 /\ ~pending[k].stale
                 /\ ServerAccepts(Payload(pending[k].results))
                 /\ pending' = RemoveAt(pending, k)]_vars
    /\ [][\A k \in 1..Len(pending) :
             SubmitRejected(k) =>
                 screen' = "error" /\ attempts' = attempts /\ bestScore' = bestScore]_vars

\* ------------------------------------------------------------------------
\* ApiClient.request as the caller of the submit route sees it
\* ------------------------------------------------------------------------
\* Variant: the status line is thrown whatever the body says.
requestThrowsNoMessage(r) ==
    [name |-> "Error", message |-> "HTTP error!"]

\* The Error thrown for a response that is not ok:
\* new Error(data.message || `HTTP error! status: ${response.status}`)
requestThrows(r) ==
    [name |-> "Error",
     message |-> IF r.message # "" THEN r.message
                 ELSE "HTTP error! status: " \o r.status]

\* The outcome classes of the submission boundary, by HTTP status.
OutcomeClass(status) ==
    CASE status = "400" -> "REJECTED_VALIDATION"
      [] status = "429" -> "RATE_LIMITED"
      [] status = "500" -> "TRANSIENT_FAILURE"

\* The messages of the 400 answers of the submit route.
RejectionMessages ==
    {"Validation failed", "Invalid quiz data provided",
     "Score must be between 0 and 100",
     "Correct answers cannot exceed total questions",
     "Total questions must be greater than 0", "Score calculation mismatch"}

\* What a caller can read off the thrown Error.
ClassOfError(e) ==
    IF e.message = "Too many form submissions. Please wait before submitting again." THEN "RATE_LIMITED"
    ELSE IF e.message \in RejectionMessages THEN "REJECTED_VALIDATION"
    ELSE "TRANSIENT_FAILURE"

C38_RetryBounded ==
    retryCall.pc # "none" =>
        LET c == retryCall
        IN  /\ c.calls <= c.maxRetries + 1
            /\ \A j \in 1..c.calls : j < c.calls => c.fn[j] # "ok"
            /\ c.pc = "returned" =>
                   /\ c.calls >= 1 /\ c.fn[c.calls] = "ok" /\ c.result = "ok"
                   /\ Len(c.sleeps) = c.calls - 1
            /\ c.pc = "thrown" =>
                   /\ c.calls = c.maxRetries + 1
                   /\ \A j \in 1..c.calls : c.fn[j] # "ok"
                   /\ c.result = c.fn[c.calls]
                   /\ Len(c.sleeps) = c.maxRetries
            /\ c.pc = "call" => Len(c.sleeps) = c.calls
            /\ c.pc = "sleep" => Len(c.sleeps) = c.calls - 1
            /\ \A j \in 1..Len(c.sleeps) : c.sleeps[j] = c.baseDelay * 2^(j - 1)
            /\ c.pc \in {"call", "sleep", "returned", "thrown"}

C38_Witness ==
    /\ retryCall.pc = "thrown"
    /\ retryCall.maxRetries = 3 /\ retryCall.baseDelay = 1000
    /\ retryCall.calls = 4
    /\ retryCall.sleeps = <<1000, 2000, 4000>>
    /\ retryCall.result = "error B"

\* C39: after any sequence of recorded attempts the statistics hold at
\* most 10 attempts, the most recent ones in the order they were recorded;
\* bestScore never decreases and is at least the score of every retained
\* attempt.
C39_StatisticsBounded ==
    /\ [](/\ Len(attempts) <= 10
          /\ \A i \in 1..Len(attempts) : bestScore >= attempts[i].score)
    /\ [][\A results \in StatsResults :
             showResultsCalled(results) =>
                 LET all == Append(attempts, Attempt(results))
                     dropped == IF Len(all) > 10 THEN Len(all) - 10 ELSE 0
                 IN  /\ Len(attempts') = Len(all) - dropped
                     /\ \A i \in 1..Len(attempts') : attempts'[i] = all[i + dropped]
                     /\ bestScore' >= bestScore
                     /\ bestScore' >= results.score]_vars

C39_Witness ==
    /\ Len(attempts) = 10
    /\ bestScore = 100
    /\ \A i \in 1..9 : attempts[i].score = 0
    /\ attempts[10].score = 50

\* C35: within one attempt (one start, no retake), whatever the sequence
\* of submits, lost or failed responses and further submits, the store
\* holds at most one record.
C35_OneRecordPerAttempt == Len(store) <= 1
====
